---- MODULE Spec2Model ----
(***************************************************************************)
(* Model of src/server/sync.rs: the synchronous WebSocket server           *)
(* (WsServer<S, TcpListener>), its accept() pipeline for the unsecured and *)
(* the TLS-secured variant, set_nonblocking, try_clone, into_async and the *)
(* Iterator implementations.  The listening socket, the TLS acceptor and   *)
(* into_ws are the collaborators accept() calls; clients are the           *)
(* environment.                                                            *)
(***************************************************************************)
EXTENDS Integers, Sequences, FiniteSets, TLC

\* ------------------------------------------------------------------ bounds
MaxConns == 2     \* client connections ever opened
MaxCalls == 2     \* accept()/next() calls made in all

\* The handle bind returns and the handle try_clone makes of it.
Handles == {1, 2}
ConnIds == 1..MaxConns

\* The socket TcpListener::bind creates (lines 172, 230), the address it is
\* bound to, and what any other socket and address would be.
BoundSocket == 1
NewSocket == 2
LocalAddr(l) == IF l = BoundSocket THEN "P" ELSE "Q"

\* self.listener.try_clone() (line 264): a new descriptor of the same socket.
DupNewSocket(l) == NewSocket
Dup(l) == l

\* ------------------------------------------------------- Option<T>, errors
None    == <<>>
Some(x) == <<x>>
IsSome(o) == Len(o) = 1
IsNone(o) == Len(o) = 0

\* An io::Error: its ErrorKind and the cause it carries.
IoErr(kind, inner) == [kind |-> kind, inner |-> inner]

\* A HyperIntoWsError: the variant, and for Io the kind and cause.
WsErr(variant, kind, inner) == [variant |-> variant, kind |-> kind, inner |-> inner]

\* From<io::Error> for HyperIntoWsError (e.into() at lines 186, 198, 244).
IoInto(e) == WsErr("Io", e.kind, e.inner)

\* e.into() at lines 210 and 256: into_ws already yields a HyperIntoWsError,
\* so the conversion is From<T> for T.
WsIntoLossy(e) == WsErr("Io", "Other", "")
WsInto(e) == e

\* io::Error::new(io::ErrorKind::Other, err) at line 198.
TlsWrapInvalidData(err) == IoErr("InvalidData", err)
TlsWrap(err) == IoErr("Other", err)

\* ---------------------------------------------------------- client scripts
\* What a client sends, as tokens: "L" a well-formed request line, "U" the
\* Upgrade, Connection, key and version headers, "T" the blank line ending
\* the head, "Z" a line that is not HTTP, "D" data after the head.  A client
\* sends a prefix of one of these scripts, token by token.
Scripts == { <<"L", "U", "T">>, <<"L", "T", "D">>, <<"Z">> }
Tokens == {"L", "U", "T", "Z", "D"}

Prefix(s, n) == SubSeq(s, 1, n)
Suffix(s, n) == SubSeq(s, n + 1, Len(s))
IsPrefix(p, s) == Len(p) <= Len(s) /\ Prefix(s, Len(p)) = p

\* Index of the first token of s that ends the parse ("T" or "Z"), 0 if none.
RECURSIVE FirstStopFrom(_, _)
FirstStopFrom(s, i) ==
    IF i > Len(s) THEN 0
    ELSE IF s[i] \in {"T", "Z"} THEN i
    ELSE FirstStopFrom(s, i + 1)
FirstStop(s) == FirstStopFrom(s, 1)

\* ------------------------------------------------- handshake detection
\* stream.into_ws() (lines 203, 249) on stream s, given the bytes `read` its
\* reader took from the socket, whether the peer's end of stream was reached
\* and whether the stream is in nonblocking mode.  Either a validated request
\* bound to the stream, or the four-part failure (s, r, b, e); `consumed` is
\* what the parser reports as consumed.
IntoWsFail(s, r, b, e, used) ==
    [ok |-> FALSE, s |-> s, request |-> <<>>, r |-> r, b |-> b, e |-> e,
     consumed |-> used]

IntoWs(s, read, eof, nb) ==
    LET k    == FirstStop(read)
        head == Prefix(read, k)
    IN  IF k = 0
        THEN IntoWsFail(s, None, Some(read),
                        WsErr("Io", IF eof THEN "UnexpectedEof" ELSE "WouldBlock", "os"),
                        <<>>)
        ELSE IF read[k] = "Z"
        THEN IntoWsFail(s, None, Some(read), WsErr("Parsing", "", ""), <<>>)
        ELSE IF head[1] # "L"
        THEN IntoWsFail(s, Some(head), Some(Suffix(read, k)),
                        WsErr("MethodNotGet", "", ""), head)
        ELSE IF \A i \in 1..k : head[i] # "U"
        THEN IntoWsFail(s, Some(head), Some(Suffix(read, k)),
                        WsErr("NoUpgradeHeader", "", ""), head)
        ELSE [ok |-> TRUE, s |-> s, request |-> head, r |-> None, b |-> None,
              e |-> WsErr("", "", ""), consumed |-> head]

\* ------------------------------------------------------ AcceptResult<S>
Ok(u)  == [ok |-> TRUE,  val |-> u]
Err(i) == [ok |-> FALSE, val |-> i]

InvalidConnection(stream, parsed, buffer, error) ==
    [stream |-> stream, parsed |-> parsed, buffer |-> buffer, error |-> error]

\* Err arm of self.listener.accept(): lines 181-188 and 239-246.
AcceptErrEmptyBuffer(e) == InvalidConnection(None, None, Some(<<>>), IoInto(e))
AcceptErr(e) == InvalidConnection(None, None, None, IoInto(e))

\* Err arm of self.ssl_acceptor.accept(stream): lines 193-200.
TlsErrKeepsStream(s, err) == InvalidConnection(Some(s), None, None, IoInto(TlsWrap(err)))
TlsErrKeepsBuffer(s, err) == InvalidConnection(None, None, Some(<<>>), IoInto(TlsWrap(err)))
TlsErr(s, err) == InvalidConnection(None, None, None, IoInto(TlsWrap(err)))

\* Err((s, r, b, e)) arm of stream.into_ws(): lines 205-212 and 251-258.
HandshakeErrDropsStream(s, r, b, e) == InvalidConnection(None, r, b, WsInto(e))
HandshakeErrDropsBuffer(s, r, b, e) == InvalidConnection(Some(s), r, None, WsInto(e))
HandshakeErr(s, r, b, e) == InvalidConnection(Some(s), r, b, WsInto(e))

\* Ok(u) => Ok(u): lines 204 and 250.
Upgrade(s, request) == [stream |-> s, request |-> request]

\* match stream.into_ws() { ... }: lines 203-213 and 249-259.
MapIntoWs(res) ==
    IF res.ok THEN Ok(Upgrade(res.s, res.request))
    ELSE Err(HandshakeErr(res.s, res.r, res.b, res.e))

\* Iterator::next: Some(self.accept()), lines 221-223 and 275-277.
IterNextFused(r) == IF r.ok THEN Some(r) ELSE None
IterNext(r) == Some(r)


\* ---------------------------------------------------------------- state
VARIABLES
    pc,            \* per handle: "none", "idle", where its accept() is ("blocked"
                   \* in listener.accept(), "tls", "into_ws"), or "gone" once
                   \* dropped or consumed
    ssl_acceptor,  \* per handle: the ssl_acceptor field ("NoTls" or "Tls")
    nonblocking,   \* the listening socket's nonblocking flag
    lastSet,       \* argument of the latest set_nonblocking, None if none yet
    setBy,         \* the handle the latest set_nonblocking was called on, 0 if none
    backlog,       \* connections queued on the listening socket, oldest first
    conn,          \* per connection: the client's side and who holds the stream
    cur,           \* per handle: the stream its accept() is working on, 0 if none
    call,          \* per handle: the accept() in progress
    ncalls,        \* accept()/next() calls made so far
    last,          \* the accept() that returned in the step just taken
    delivered,     \* per connection: how often listener.accept() returned it
    returned,      \* per connection: how many Outcomes carried its stream
    pullFailed,    \* whether a next() has yielded an InvalidConnection so far
    listener,      \* per handle: the socket its listener field refers to, 0 if none
    fds,           \* open descriptors of the socket bind created
    async          \* per handle: the async server into_async made of it, if any

vars == <<pc, ssl_acceptor, nonblocking, lastSet, backlog, conn, cur,
          call, ncalls, last, delivered, returned, pullFailed,
          listener, fds, async, setBy>>

\* A call: how it was made, whether the latest mode change was
\* set_nonblocking(true) when it was made, and the steps that have returned in
\* it: which, whether with Ok, the cause if not, and for listener.accept()
\* whether it found nothing queued.
NoCall == [via |-> "", nbset |-> FALSE, steps |-> <<>>]
Step(op, ok, why, empty) == [op |-> op, ok |-> ok, why |-> why, empty |-> empty]

\* The accept() that has just returned: the handle, the stream it took (0 if
\* none), the call, the AcceptResult, what next() made of it, and what
\* into_ws read from the socket and returned.
NoHs == [ok |-> FALSE, s |-> 0, request |-> <<>>, r |-> None, b |-> None,
         e |-> WsErr("", "", ""), consumed |-> <<>>]
NoLast == [h |-> 0, c |-> 0, call |-> NoCall, ret |-> None, item |-> None,
           read |-> <<>>, hs |-> NoHs]
FreeConn == [st |-> "free", sent |-> <<>>, closed |-> FALSE, hello |-> "none",
             nb |-> FALSE]

\* bind (lines 228-233) or bind_secure (lines 168-175): one handle owning a
\* fresh listening socket, blocking, with nothing queued.
Init ==
    /\ pc = [h \in Handles |-> IF h = 1 THEN "idle" ELSE "none"]
    /\ \E a \in {"NoTls", "Tls"} :
          ssl_acceptor = [h \in Handles |-> IF h = 1 THEN a ELSE "absent"]
    /\ nonblocking = FALSE
    /\ lastSet = None
    /\ setBy = 0
    /\ backlog = <<>>
    /\ conn = [c \in ConnIds |-> FreeConn]
    /\ cur = [h \in Handles |-> 0]
    /\ call = [h \in Handles |-> NoCall]
    /\ ncalls = 0
    /\ last = NoLast
    /\ delivered = [c \in ConnIds |-> 0]
    /\ returned = [c \in ConnIds |-> 0]
    /\ pullFailed = FALSE
    /\ listener = [h \in Handles |-> IF h = 1 THEN BoundSocket ELSE 0]
    /\ fds = 1
    /\ async = [h \in Handles |-> None]

Secured == \E h \in Handles : ssl_acceptor[h] = "Tls"
Live(h) == pc[h] \notin {"none", "gone"}

\* The listening socket is open while a descriptor of it is.
Open == fds > 0

\* A stream that left the pipeline: in the stream of an Outcome ("owned"),
\* inside the error of one ("kept") or closed ("dropped"); what its client
\* does from then on is not followed.
Gone(st) == [FreeConn EXCEPT !.st = st]

\* --------------------------------------------------------------- clients
\* What a client sent while its connection was queued reaches the server no
\* differently from what it sends once the connection is taken, so a client's
\* sends are followed from the moment listener.accept() has returned its
\* stream.

\* A client connects: the connection is queued on the listening socket.
Connect(c) ==
    /\ conn[c].st = "free"
    /\ \A d \in ConnIds : d < c => conn[d].st # "free"
    /\ Open
    /\ conn' = [conn EXCEPT ![c] = [FreeConn EXCEPT !.st = "pending"]]
    /\ backlog' = Append(backlog, c)
    /\ last' = NoLast
    /\ UNCHANGED <<pc, ssl_acceptor, listener, fds, async, nonblocking, lastSet, setBy, cur, call,
                   ncalls, delivered, returned, pullFailed>>

\* A queued connection is reset by its client before the server takes it.
Abort(c) ==
    /\ conn[c].st = "pending"
    /\ conn' = [conn EXCEPT ![c] = [FreeConn EXCEPT !.st = "aborted"]]
    /\ last' = NoLast
    /\ UNCHANGED <<pc, ssl_acceptor, listener, fds, async, nonblocking, lastSet, setBy, backlog, cur,
                   call, ncalls, delivered, returned, pullFailed>>

\* The client of a TLS server sends its hello: one the acceptor can negotiate
\* with, or not.
Hello(c, good) ==
    /\ Secured
    /\ conn[c].st = "held"
    /\ conn[c].hello = "none" /\ ~conn[c].closed
    /\ conn' = [conn EXCEPT ![c].hello = IF good THEN "good" ELSE "bad"]
    /\ last' = NoLast
    /\ UNCHANGED <<pc, ssl_acceptor, listener, fds, async, nonblocking, lastSet, setBy, backlog, cur,
                   call, ncalls, delivered, returned, pullFailed>>

\* The client sends one more token, staying within one of the scripts.
Send(c, tok) ==
    /\ conn[c].st = "held"
    /\ ~conn[c].closed
    /\ Secured => conn[c].hello = "good"
    /\ \E s \in Scripts : IsPrefix(Append(conn[c].sent, tok), s)
    /\ conn' = [conn EXCEPT ![c].sent = Append(@, tok)]
    /\ last' = NoLast
    /\ UNCHANGED <<pc, ssl_acceptor, listener, fds, async, nonblocking, lastSet, setBy, backlog, cur,
                   call, ncalls, delivered, returned, pullFailed>>

\* The client closes its end.  (Once the bytes sent hold a token that ends
\* the parse, into_ws never reads up to the end of the stream, and a close
\* makes no difference to it.)
Close(c) ==
    /\ conn[c].st = "held"
    /\ ~conn[c].closed
    /\ FirstStop(conn[c].sent) = 0
    /\ conn' = [conn EXCEPT ![c].closed = TRUE]
    /\ last' = NoLast
    /\ UNCHANGED <<pc, ssl_acceptor, listener, fds, async, nonblocking, lastSet, setBy, backlog, cur,
                   call, ncalls, delivered, returned, pullFailed>>

\* ---------------------------------------------------- the accept pipeline
\* self.listener.accept() (lines 179, 237) on a socket whose queue is q and
\* whose nonblocking flag is nb: it takes the oldest queued connection, fails
\* on one that was reset, and on an empty queue fails with WouldBlock
\* (nonblocking) or waits (blocking).
ListenerAcceptPeek(q, nb) ==
    IF q = <<>>
    THEN IF nb THEN [status |-> "err", c |-> 0, rest |-> q, e |-> IoErr("WouldBlock", "os")]
         ELSE [status |-> "wait", c |-> 0, rest |-> q, e |-> IoErr("", "")]
    ELSE [status |-> "ok", c |-> Head(q), rest |-> q, e |-> IoErr("", "")]
ListenerAcceptAlwaysWaits(q, nb) ==
    IF q = <<>>
    THEN [status |-> "wait", c |-> 0, rest |-> q, e |-> IoErr("", "")]
    ELSE [status |-> "ok", c |-> Head(q), rest |-> Tail(q), e |-> IoErr("", "")]
ListenerAcceptDrains(q, nb) ==
    IF q = <<>>
    THEN IF nb THEN [status |-> "err", c |-> 0, rest |-> q, e |-> IoErr("WouldBlock", "os")]
         ELSE [status |-> "wait", c |-> 0, rest |-> q, e |-> IoErr("", "")]
    ELSE IF conn[Head(q)].st = "aborted"
    THEN [status |-> "err", c |-> Head(q), rest |-> <<>>,
          e |-> IoErr("ConnectionAborted", "os")]
    ELSE [status |-> "ok", c |-> Head(q), rest |-> <<>>, e |-> IoErr("", "")]
ListenerAccept(q, nb) ==
    IF q = <<>>
    THEN IF nb THEN [status |-> "err", c |-> 0, rest |-> q, e |-> IoErr("WouldBlock", "os")]
         ELSE [status |-> "wait", c |-> 0, rest |-> q, e |-> IoErr("", "")]
    ELSE IF conn[Head(q)].st = "aborted"
    THEN [status |-> "err", c |-> Head(q), rest |-> Tail(q),
          e |-> IoErr("ConnectionAborted", "os")]
    ELSE [status |-> "ok", c |-> Head(q), rest |-> Tail(q), e |-> IoErr("", "")]

\* The nonblocking flag of the stream listener.accept() returns (line 180,
\* 238), which the server never sets: the platform either leaves it clear or
\* copies the flag of the listening socket.
StreamMode(nb) == {FALSE, nb}

\* The step after a successful listener.accept(): the secured accept() goes
\* on to ssl_acceptor.accept (line 191), the unsecured one to into_ws (249).
AfterAcceptSkipsTls(acceptor) == "into_ws"
AfterAccept(acceptor) == IF acceptor = "Tls" THEN "tls" ELSE "into_ws"

\* self.ssl_acceptor.accept(stream) (line 191) given the client's hello: it
\* waits for the hello unless the stream has ended or is nonblocking.  The
\* acceptor takes the stream by value; the HandshakeError<S> of a fatal failure
\* has dropped it, and that of a negotiation interrupted by WouldBlock holds
\* the stream it was interrupted on (`mid`).
TlsAccept(hello, closed, nb) ==
    CASE hello = "good" -> [status |-> "ok", cause |-> "", mid |-> FALSE]
      [] hello = "bad"  -> [status |-> "err", cause |-> "HandshakeFailure", mid |-> FALSE]
      [] hello = "none" /\ closed ->
             [status |-> "err", cause |-> "UnexpectedEof", mid |-> FALSE]
      [] hello = "none" /\ ~closed /\ nb ->
             [status |-> "err", cause |-> "WouldBlock", mid |-> TRUE]
      [] OTHER -> [status |-> "wait", cause |-> "", mid |-> FALSE]

\* accept() runs the same whether it was called directly or by next(), whose
\* body is Some(self.accept()) (lines 222, 276): next() acts only once
\* accept() has returned.  A call that returns in its first step has the
\* caller it was made by; for a call that waited, which of the two it was is
\* told apart when it returns.
Caller(cl) == IF cl.via = "" THEN {"accept", "next"} ELSE {cl.via}
Waiting(cl) == [cl EXCEPT !.via = ""]

\* accept() on handle h returns `out` at the end of the call cl, about the
\* stream c (0 if it took none), into_ws having read `read` and returned hs;
\* a pull through the Iterator wraps it (lines 222, 276).
ReturnFuses(h, c, out, cl, read, hs) ==
    /\ pc' = [pc EXCEPT ![h] = IF out.ok THEN "idle" ELSE "gone"]
    /\ cur' = [cur EXCEPT ![h] = 0]
    /\ call' = [call EXCEPT ![h] = NoCall]
    /\ \E via \in Caller(cl) :
          /\ last' = [h |-> h, c |-> c, call |-> [cl EXCEPT !.via = via],
                      ret |-> Some(out),
                      item |-> IF via = "next" THEN IterNext(out) ELSE None,
                      read |-> read, hs |-> hs]
          /\ pullFailed' = (pullFailed \/ (via = "next" /\ ~out.ok))
    /\ returned' = IF c # 0 /\ (out.ok \/ IsSome(out.val.stream))
                     THEN [returned EXCEPT ![c] = @ + 1]
                     ELSE returned
Return(h, c, out, cl, read, hs) ==
    /\ pc' = [pc EXCEPT ![h] = "idle"]
    /\ cur' = [cur EXCEPT ![h] = 0]
    /\ call' = [call EXCEPT ![h] = NoCall]
    /\ \E via \in Caller(cl) :
          /\ last' = [h |-> h, c |-> c, call |-> [cl EXCEPT !.via = via],
                      ret |-> Some(out),
                      item |-> IF via = "next" THEN IterNext(out) ELSE None,
                      read |-> read, hs |-> hs]
          /\ pullFailed' = (pullFailed \/ (via = "next" /\ ~out.ok))
    /\ returned' = IF c # 0 /\ (out.ok \/ IsSome(out.val.stream))
                     THEN [returned EXCEPT ![c] = @ + 1]
                     ELSE returned

\* The stream c leaves the pipeline with the Outcome `out`: it is owned by
\* the Outcome that carries it; otherwise it is closed, unless the error moved
\* into the Outcome (line 198) holds it (`inErr`), which keeps it open inside
\* that error.
ReleaseClosesAll(c, out, inErr) == Gone("dropped")
Release(c, out, inErr) ==
    IF out.ok \/ IsSome(out.val.stream) THEN Gone("owned")
    ELSE IF inErr THEN Gone("kept")
    ELSE Gone("dropped")

\* What listener.accept() does for handle h, whose call is cl.
Primitive(h, cl) ==
    LET a == ListenerAccept(backlog, nonblocking) IN
    /\ backlog' = a.rest
    /\ CASE a.status = "wait" ->
              /\ pc' = [pc EXCEPT ![h] = "blocked"]
              /\ call' = [call EXCEPT ![h] = Waiting(cl)]
              /\ last' = NoLast
              /\ UNCHANGED <<conn, cur, delivered, returned, pullFailed>>
         [] a.status = "err" ->
              /\ Return(h, 0, Err(AcceptErr(a.e)),
                        [cl EXCEPT !.steps =
                            Append(@, Step("accept", FALSE, a.e.kind, backlog = <<>>))],
                        <<>>, NoHs)
              /\ conn' = IF a.c = 0 THEN conn ELSE [conn EXCEPT ![a.c] = Gone("dropped")]
              /\ UNCHANGED delivered
         [] a.status = "ok" ->
              /\ pc' = [pc EXCEPT ![h] = AfterAccept(ssl_acceptor[h])]
              /\ cur' = [cur EXCEPT ![h] = a.c]
              /\ call' = [call EXCEPT ![h] =
                            [Waiting(cl) EXCEPT !.steps =
                                Append(@, Step("accept", TRUE, "", backlog = <<>>))]]
              /\ \E nb \in StreamMode(nonblocking) :
                    conn' = [conn EXCEPT ![a.c].st = "held", ![a.c].nb = nb]
              /\ delivered' = [delivered EXCEPT ![a.c] = @ + 1]
              /\ last' = NoLast
              /\ UNCHANGED <<returned, pullFailed>>

\* accept() (lines 178, 236) called directly (via = "accept") or by next()
\* (via = "next", lines 221, 275), up to the return of listener.accept() or
\* to the point where it waits inside it.
Accept(h, via) ==
    /\ pc[h] = "idle"
    /\ ncalls < MaxCalls
    /\ ncalls' = ncalls + 1
    /\ Primitive(h, [via |-> via, nbset |-> lastSet = Some(TRUE), steps |-> <<>>])
    /\ UNCHANGED <<ssl_acceptor, listener, fds, async, nonblocking, lastSet, setBy>>

\* A connection arrived while accept() was waiting in listener.accept().
Wake(h) ==
    /\ pc[h] = "blocked"
    /\ backlog # <<>>
    /\ Primitive(h, call[h])
    /\ UNCHANGED <<ssl_acceptor, listener, fds, async, nonblocking, lastSet, setBy, ncalls>>

\* Lines 191-201: the TLS negotiation of the secured accept().
Tls(h) ==
    /\ pc[h] = "tls"
    /\ LET c == cur[h]
           t == TlsAccept(conn[c].hello, conn[c].closed, conn[c].nb)
           cl == [call[h] EXCEPT
                     !.steps = Append(@, Step("tls", t.status = "ok", t.cause, FALSE))]
           out == Err(TlsErr(c, t.cause))
       IN  /\ t.status # "wait"
           /\ IF t.status = "ok"
              THEN /\ pc' = [pc EXCEPT ![h] = "into_ws"]
                   /\ call' = [call EXCEPT ![h] = cl]
                   /\ last' = NoLast
                   /\ UNCHANGED <<conn, cur, returned, pullFailed>>
              ELSE /\ Return(h, c, out, cl, <<>>, NoHs)
                   /\ conn' = [conn EXCEPT ![c] = Release(c, out, t.mid)]
    /\ UNCHANGED <<ssl_acceptor, listener, fds, async, nonblocking, lastSet, setBy, backlog, ncalls, delivered>>

\* Whether into_ws on a stream with these bytes sent can return: the bytes
\* hold a token that ends the parse, the stream has ended, or it is
\* nonblocking; otherwise its read waits.
CanParse(avail, closed, nb) == FirstStop(avail) > 0 \/ closed \/ nb

\* Lines 203-213 and 249-259: handshake detection and the mapping of its
\* result.  The reader takes r of the bytes the client has sent so far: at
\* least up to the token that ends the parse, or all of them when it runs
\* into the end of the stream or into WouldBlock.
Handshake(h, r) ==
    /\ pc[h] = "into_ws"
    /\ LET c     == cur[h]
           avail == conn[c].sent
           k     == FirstStop(avail)
           res   == IntoWs(c, Prefix(avail, r), conn[c].closed, conn[c].nb)
           out   == MapIntoWs(res)
       IN  /\ CanParse(avail, conn[c].closed, conn[c].nb)
           /\ r >= (IF k > 0 THEN k ELSE Len(avail))
           /\ r <= Len(avail)
           /\ Return(h, c, out,
                     [call[h] EXCEPT
                         !.steps = Append(@, Step("into_ws", res.ok, res.e.variant,
                                                  FALSE))],
                     Prefix(avail, r), res)
           /\ conn' = [conn EXCEPT ![c] = Release(c, out, FALSE)]
    /\ UNCHANGED <<ssl_acceptor, listener, fds, async, nonblocking, lastSet, setBy, backlog, ncalls, delivered>>

\* ------------------------------------------------------ other operations
\* set_nonblocking (lines 151-153): sets the flag of the listening socket.
SetNonblockingNoop(h, b) ==
    /\ pc[h] = "idle"
    /\ lastSet' = Some(b)
    /\ setBy' = h
    /\ last' = NoLast
    /\ UNCHANGED <<pc, ssl_acceptor, listener, fds, async, nonblocking, backlog, conn, cur, call, ncalls,
                   delivered, returned, pullFailed>>
SetNonblockingFlushes(h, b) ==
    /\ pc[h] = "idle"
    /\ nonblocking' = b
    /\ lastSet' = Some(b)
    /\ setBy' = h
    /\ backlog' = <<>>
    /\ last' = NoLast
    /\ UNCHANGED <<pc, ssl_acceptor, listener, fds, async, conn, cur, call, ncalls, delivered,
                   returned, pullFailed>>
SetNonblockingOwnSocket(h, b) ==
    /\ pc[h] = "idle"
    /\ nonblocking' = IF h = 1 THEN b ELSE nonblocking
    /\ lastSet' = Some(b)
    /\ setBy' = h
    /\ last' = NoLast
    /\ UNCHANGED <<pc, ssl_acceptor, listener, fds, async, backlog, conn, cur, call, ncalls, delivered,
                   returned, pullFailed>>
SetNonblocking(h, b) ==
    /\ pc[h] = "idle"
    /\ nonblocking' = b
    /\ lastSet' = Some(b)
    /\ setBy' = h
    /\ last' = NoLast
    /\ UNCHANGED <<pc, ssl_acceptor, listener, fds, async, backlog, conn, cur, call, ncalls, delivered,
                   returned, pullFailed>>

\* try_clone (lines 263-269): a second handle to the same listening socket,
\* with a copy of the (unsecured) acceptor.
TryClone(h, g) ==
    /\ pc[h] = "idle"
    /\ ssl_acceptor[h] = "NoTls"
    /\ pc[g] = "none"
    /\ \A f \in Handles : f < g => pc[f] # "none"
    /\ pc' = [pc EXCEPT ![g] = "idle"]
    /\ ssl_acceptor' = [ssl_acceptor EXCEPT ![g] = ssl_acceptor[h]]
    /\ last' = NoLast
    /\ listener' = [listener EXCEPT ![g] = Dup(listener[h])]
    /\ fds' = fds + 1
    /\ UNCHANGED <<async, nonblocking, lastSet, setBy, backlog, conn, cur, call,
                   ncalls, delivered, returned, pullFailed>>

\* A handle goes out of scope: its descriptor of the listening socket is
\* closed (no accept() of it is in progress, accept borrowing it mutably).
Drop(h) ==
    /\ pc[h] = "idle"
    /\ pc' = [pc EXCEPT ![h] = "gone"]
    /\ ssl_acceptor' = [ssl_acceptor EXCEPT ![h] = "absent"]
    /\ listener' = [listener EXCEPT ![h] = 0]
    /\ fds' = fds - 1
    /\ last' = NoLast
    /\ UNCHANGED <<async, nonblocking, lastSet, setBy, backlog, conn, cur, call,
                   ncalls, delivered, returned, pullFailed>>

\* AsyncTcpListener::from_listener(self.listener, &addr, handle) (line 159):
\* the event-loop listener adopts the descriptor it is given.
FromListenerRebinds(l, addr) == [listener |-> NewSocket, addr |-> addr]
FromListener(l, addr) == [listener |-> l, addr |-> addr]

\* into_async (lines 156-162): self is consumed; when local_addr and
\* from_listener succeed the async server holds the adopted listener and the
\* ssl_acceptor moved out of self, and when one of them fails the listener is
\* dropped with self.
IntoAsync(h, ok) ==
    /\ pc[h] = "idle"
    /\ pc' = [pc EXCEPT ![h] = "gone"]
    /\ ssl_acceptor' = [ssl_acceptor EXCEPT ![h] = "absent"]
    /\ listener' = [listener EXCEPT ![h] = 0]
    /\ IF ok
       THEN LET addr == LocalAddr(listener[h])
                l    == FromListener(listener[h], addr)
            IN  /\ async' = [async EXCEPT ![h] =
                                Some([listener |-> l.listener, addr |-> l.addr,
                                      ssl_acceptor |-> ssl_acceptor[h],
                                      queued |-> Len(backlog)])]
                /\ fds' = fds
       ELSE /\ async' = async
            /\ fds' = fds - 1
    /\ last' = NoLast
    /\ UNCHANGED <<nonblocking, lastSet, setBy, backlog, conn, cur, call,
                   ncalls, delivered, returned, pullFailed>>

Next ==
    \/ \E c \in ConnIds : Connect(c)
    \/ \E c \in ConnIds : Abort(c)
    \/ \E c \in ConnIds, good \in BOOLEAN : Hello(c, good)
    \/ \E c \in ConnIds, tok \in Tokens : Send(c, tok)
    \/ \E c \in ConnIds : Close(c)
    \/ \E h \in Handles, via \in {"accept", "next"} : Accept(h, via)
    \/ \E h \in Handles : Wake(h)
    \/ \E h \in Handles : Tls(h)
    \/ \E h \in Handles, r \in 0..3 : Handshake(h, r)
    \/ \E h \in Handles, b \in BOOLEAN : SetNonblocking(h, b)
    \/ \E h, g \in Handles : TryClone(h, g)
    \/ \E h \in Handles : Drop(h)
    \/ \E h \in Handles, ok \in BOOLEAN : IntoAsync(h, ok)

Spec == Init /\ [][Next]_vars

\* ------------------------------------------------------------ the claims
Returned == IsSome(last.ret)
Out      == last.ret[1]
Failed   == Returned /\ ~Out.ok
IC       == Out.val
Steps    == last.call.steps
Ran(op)  == \E i \in 1..Len(Steps) : Steps[i].op = op
FailedIn(op) == Returned /\ \E i \in 1..Len(Steps) : Steps[i].op = op /\ ~Steps[i].ok
Absent3(ic) == IsNone(ic.stream) /\ IsNone(ic.parsed) /\ IsNone(ic.buffer)
BufferOf(ic) == IF IsSome(ic.buffer) THEN ic.buffer[1] ELSE <<>>

\* A call that is waiting: in listener.accept(), in the TLS negotiation or in
\* the read of into_ws.
Suspended(h) ==
    \/ pc[h] = "blocked"
    \/ /\ pc[h] = "tls"
       /\ TlsAccept(conn[cur[h]].hello, conn[cur[h]].closed, conn[cur[h]].nb).status = "wait"
    \/ /\ pc[h] = "into_ws"
       /\ ~CanParse(conn[cur[h]].sent, conn[cur[h]].closed, conn[cur[h]].nb)

\* C1: an accept() made when the latest mode change is set_nonblocking(true)
\* never waits in listener.accept(), and when listener.accept() finds nothing
\* queued the call returns, with no further step, an InvalidConnection with
\* stream, parsed and buffer absent and the error Io of kind WouldBlock.
C1_NonblockingEmptyWouldBlock ==
    /\ \A h \in Handles : call[h].nbset => pc[h] # "blocked"
    /\ Returned /\ last.call.nbset /\ Steps[1].empty =>
          /\ ~Out.ok
          /\ Absent3(IC)
          /\ IC.error.variant = "Io" /\ IC.error.kind = "WouldBlock"
          /\ Len(Steps) = 1
C1_Witness ==
    /\ Returned /\ last.call.nbset /\ Steps[1].empty
    /\ IC.error.kind = "WouldBlock"

\* C2: when the TLS negotiation of a secured accept() fails, the
\* InvalidConnection has stream, parsed and buffer absent and into_ws was not
\* run in that call.
C2_TlsFailureAllAbsent ==
    FailedIn("tls") => ~Out.ok /\ Absent3(IC) /\ ~Ran("into_ws")
C2_Witness ==
    FailedIn("tls") /\ Steps[2].why = "HandshakeFailure" /\ Absent3(IC)

\* C3 as claimed: the error of a failed TLS negotiation is classified
\* TlsError, not IoError.
C3_TlsFailureIsTlsError ==
    FailedIn("tls") => IC.error.variant = "Tls"
\* C3 as the code has it: the error of a failed TLS negotiation is an Io
\* error of kind Other carrying the TLS cause, the same class as a failure
\* of listener.accept() and distinct from the handshake errors.
C3_TlsFailureIsIoOther ==
    FailedIn("tls") =>
        /\ ~Out.ok
        /\ IC.error = WsErr("Io", "Other", Steps[Len(Steps)].why)
        /\ Steps[Len(Steps)].why \in {"HandshakeFailure", "UnexpectedEof", "WouldBlock"}
C3_Witness ==
    FailedIn("tls") /\ IC.error = WsErr("Io", "Other", "HandshakeFailure")

\* C4: when listener.accept() fails, on a secured or an unsecured server,
\* accept() returns at once an InvalidConnection with stream, parsed and buffer
\* absent and the Io error of that failure; neither the TLS step nor into_ws
\* runs in that call.
C4_AcceptFailureImmediate ==
    FailedIn("accept") =>
        /\ ~Out.ok
        /\ Absent3(IC)
        /\ IC.error = WsErr("Io", Steps[1].why, "os")
        /\ Steps[1].why \in {"WouldBlock", "ConnectionAborted"}
        /\ Len(Steps) = 1
C4_Witness ==
    /\ FailedIn("accept") /\ Steps[1].why = "ConnectionAborted"
    /\ ssl_acceptor[last.h] = "Tls"

\* into_ws ran into the end of a stream whose client sent nothing and closed.
EofOnEmpty ==
    /\ FailedIn("into_ws")
    /\ last.read = <<>>
    /\ last.hs.e = WsErr("Io", "UnexpectedEof", "os")

\* C5 as claimed: when the client sent nothing and closed, so that into_ws
\* fails with an Io error, the InvalidConnection has the error Io and the
\* stream absent.
C5_EofStreamAbsent ==
    EofOnEmpty => ~Out.ok /\ IC.error.variant = "Io" /\ IsNone(IC.stream)
\* C5 as the code has it: in that case the InvalidConnection has the error Io
\* and carries the accepted stream; the stream is present whenever the
\* failure arose in into_ws, usable or not, and absent otherwise.
C5_EofStreamPresent ==
    /\ EofOnEmpty =>
          ~Out.ok /\ IC.error.variant = "Io" /\ IC.stream = Some(last.c) /\ last.c # 0
    /\ Failed => (IsSome(IC.stream) <=> FailedIn("into_ws"))
C5_Witness ==
    EofOnEmpty /\ IC.stream = Some(last.c) /\ IC.error.kind = "UnexpectedEof"

\* C6: accept() maps the result of into_ws without alteration: a success to
\* the Upgrade of the stream and request returned, a failure (s, r, b, e) to
\* the InvalidConnection with stream s, still open, and parsed, buffer and
\* error exactly r, b and e; a request without the Upgrade headers gives the
\* error NoUpgradeHeader with the stream present.
C6_MapsIntoWsUnchanged ==
    Returned /\ Ran("into_ws") =>
        /\ last.hs.ok => Out = Ok([stream |-> last.hs.s, request |-> last.hs.request])
        /\ ~last.hs.ok =>
              /\ Out = Err([stream |-> Some(last.hs.s), parsed |-> last.hs.r,
                            buffer |-> last.hs.b, error |-> last.hs.e])
              /\ conn[last.hs.s].st = "owned"
        /\ last.hs.s = last.c
        /\ Len(last.read) >= 2 /\ Prefix(last.read, 2) = <<"L", "T">> =>
              /\ ~Out.ok
              /\ IC.error.variant = "NoUpgradeHeader"
              /\ IC.stream = Some(last.c)
              /\ IC.parsed = Some(<<"L", "T">>)
C6_Witness ==
    /\ Returned /\ Ran("into_ws") /\ last.read = <<"L", "T">>
    /\ IC.error.variant = "NoUpgradeHeader" /\ IsSome(IC.stream)

\* C7: for an InvalidConnection with the stream present, the bytes the parser
\* reports consumed followed by the returned buffer are exactly the bytes read
\* from the socket: none is lost, none appears twice.
C7_NoByteLost ==
    Failed /\ IsSome(IC.stream) =>
        /\ last.hs.consumed \o BufferOf(IC) = last.read
        /\ IsSome(IC.parsed) => IC.parsed[1] = last.hs.consumed
C7_Witness ==
    /\ Failed /\ IsSome(IC.stream)
    /\ last.hs.consumed = <<"L", "T">> /\ BufferOf(IC) = <<"D">>

\* C8: with the handles of one server (the bound one and its try_clone), no
\* connection is returned by two accept() calls, whatever the interleaving,
\* and no more connections are returned than were queued.
RECURSIVE Returns(_)
Returns(n) == IF n = 0 THEN 0 ELSE returned[n] + Returns(n - 1)
C8_NoConnectionTwice ==
    /\ \A c \in ConnIds : returned[c] <= 1 /\ delivered[c] <= 1
    /\ \A h, g \in Handles : h # g /\ cur[h] # 0 => cur[h] # cur[g]
    /\ Returns(MaxConns) <= Cardinality({c \in ConnIds : conn[c].st # "free"})
C8_Witness ==
    /\ Returned /\ last.h = 2 /\ last.c # 0 /\ returned[last.c] = 1
    /\ pc[1] = "into_ws" /\ cur[1] # 0 /\ cur[1] # last.c

\* C9: every next() returns Some of the Outcome of one accept(), whatever the
\* Outcome; after pulls that yielded InvalidConnection a further pull can
\* still be made and runs listener.accept().
C9_NextNeverExhausted ==
    /\ Returned /\ last.call.via = "next" =>
          /\ last.item = Some(Out)
          /\ Steps[1].op = "accept"
          /\ Len(SelectSeq(Steps, LAMBDA st : st.op = "accept")) = 1
    /\ \A h \in Handles :
          pc[h] = "idle" /\ ncalls < MaxCalls => ENABLED Accept(h, "next")
C9_Witness ==
    /\ pullFailed /\ pc[2] = "none"
    /\ Returned /\ last.call.via = "next" /\ Out.ok
    /\ last.item = Some(Out)

C11_ToggleInv ==
    /\ nonblocking = (lastSet = Some(TRUE))
    /\ \A h \in Handles : pc[h] = "blocked" => ~call[h].nbset
    /\ Returned /\ ~last.call.nbset =>
          /\ ~Steps[1].empty
          /\ ~(Steps[1].op = "accept" /\ Steps[1].why = "WouldBlock")
    /\ \A h \in Handles :
          pc[h] = "idle" /\ ncalls < MaxCalls /\ ~nonblocking /\ backlog = <<>> =>
              ENABLED (Accept(h, "accept") /\ pc'[h] = "blocked")
C11_TogglePersistsFramed ==
    /\ []C11_ToggleInv
    /\ [][nonblocking' # nonblocking =>
            UNCHANGED <<backlog, conn, cur, delivered, returned>>]_vars
C11_Witness ==
    \E h, g \in Handles :
        /\ lastSet = Some(FALSE) /\ backlog = <<>>
        /\ pc[h] = "blocked" /\ ~call[h].nbset
        /\ pc[g] = "into_ws" /\ call[g].nbset /\ conn[cur[g]].nb

\* C12: an into_async that succeeds consumes the handle and yields an async
\* server on the very socket the handle had, at the address it is bound to and
\* with the handle's ssl_acceptor; the step leaves the socket open and its
\* queue as it was, and a client can still connect afterwards.
Migrated(h) == IsSome(async[h])
C12_MigrationInv ==
    \A h \in Handles :
        Migrated(h) =>
            /\ async[h][1].listener = BoundSocket
            /\ async[h][1].addr = LocalAddr(BoundSocket)
            /\ Open
            /\ pc[h] = "gone" /\ listener[h] = 0
            /\ \A c \in ConnIds :
                  conn[c].st = "free" /\ (\A d \in ConnIds : d < c => conn[d].st # "free")
                      => ENABLED Connect(c)
C12_IntoAsyncSameSocket ==
    /\ []C12_MigrationInv
    /\ [][\A h \in Handles :
            ~Migrated(h) /\ IsSome(async'[h]) =>
                /\ async'[h][1].listener = listener[h]
                /\ async'[h][1].addr = LocalAddr(listener[h])
                /\ async'[h][1].ssl_acceptor = ssl_acceptor[h]
                /\ async'[h][1].queued = Len(backlog)
                /\ UNCHANGED <<backlog, conn, fds, nonblocking>>]_vars
C12_Witness ==
    /\ Migrated(1) /\ pc[2] = "none"
    /\ async[1][1].ssl_acceptor = "Tls"
    /\ async[1][1].queued = 1 /\ Len(backlog) = 2
    /\ \A c \in ConnIds : conn[c].st = "pending"

\* C13: the steps of an accept() come in the order listener.accept(), then
\* (on a secured server only) the TLS negotiation, then into_ws, each after the
\* one before it returned Ok; on a secured server into_ws runs only on a
\* stream whose negotiation succeeded, and on an unsecured one the TLS step
\* never runs.
InOrder(s, acceptor) ==
    LET order == IF acceptor = "Tls" THEN <<"accept", "tls", "into_ws">>
                 ELSE <<"accept", "into_ws">>
    IN  /\ Len(s) <= Len(order)
        /\ \A i \in 1..Len(s) :
              /\ s[i].op = order[i]
              /\ i > 1 => s[i - 1].ok
C13_FixedStepOrder ==
    /\ \A h \in Handles :
          /\ InOrder(call[h].steps, ssl_acceptor[h])
          /\ pc[h] = "tls" => ssl_acceptor[h] = "Tls"
          /\ pc[h] = "into_ws" /\ ssl_acceptor[h] = "Tls" =>
                /\ Len(call[h].steps) = 2 /\ call[h].steps[2].ok
                /\ conn[cur[h]].hello = "good"
    /\ Returned =>
          /\ InOrder(Steps, ssl_acceptor[last.h])
          /\ Steps[1].op = "accept"
          /\ Ran("into_ws") /\ ssl_acceptor[last.h] = "Tls" =>
                Steps[2].op = "tls" /\ Steps[2].ok
C13_Witness ==
    /\ Returned /\ ssl_acceptor[last.h] = "Tls"
    /\ Len(Steps) = 3 /\ Steps[2].op = "tls" /\ Steps[3].op = "into_ws"
    /\ ~Out.ok

\* C14: in every accept(), made directly or by next(), listener.accept()
\* returns exactly once and the TLS negotiation and into_ws at most once each,
\* nothing running again after a failure; and the connections taken off the
\* queue are never more than the calls made.
Count(s, op) == Len(SelectSeq(s, LAMBDA st : st.op = op))
Queued(c) == \E i \in 1..Len(backlog) : backlog[i] = c
Removed == {c \in ConnIds : conn[c].st # "free" /\ ~Queued(c)}
C14_OneStepEachNoPrefetch ==
    /\ \A h \in Handles, op \in {"accept", "tls", "into_ws"} :
          Count(call[h].steps, op) <= 1
    /\ \A h \in Handles :
          \A i \in 1..Len(call[h].steps) : call[h].steps[i].ok
    /\ Returned =>
          /\ Count(Steps, "accept") = 1
          /\ Count(Steps, "tls") <= 1
          /\ Count(Steps, "into_ws") <= 1
          /\ \A i \in 1..Len(Steps) : ~Steps[i].ok => i = Len(Steps)
    /\ Cardinality(Removed) <= ncalls
    /\ Cardinality(Removed) =
          Cardinality({h \in Handles : cur[h] # 0})
          + Cardinality({c \in ConnIds : conn[c].st \in {"owned", "kept", "dropped"}})
C14_Witness ==
    /\ Returned /\ last.call.via = "next" /\ last.c # 0
    /\ ncalls = 1 /\ Removed = {last.c} /\ Len(backlog) = 1

\* C15: an accept() that returns produces one Outcome and ends its call: the
\* handle is idle again with no call and no stream left over, so the next
\* accept() starts afresh; within a call the pipeline only moves forward
\* (waiting in listener.accept(), TLS negotiation, into_ws, return); and the
\* returning step, failed or not, leaves the listening socket, the
\* ssl_acceptor and the blocking mode as they were.
Forward ==
    { <<"idle", "blocked">>, <<"idle", "tls">>, <<"idle", "into_ws">>,
      <<"blocked", "tls">>, <<"blocked", "into_ws">>, <<"blocked", "idle">>,
      <<"tls", "into_ws">>, <<"tls", "idle">>, <<"into_ws", "idle">>,
      <<"none", "idle">>, <<"idle", "gone">> }
C15_OutcomeInv ==
    /\ Returned =>
          /\ last.h \in Handles /\ pc[last.h] = "idle"
          /\ call[last.h] = NoCall /\ cur[last.h] = 0
          /\ Out.ok \in BOOLEAN
          /\ Out.ok => Steps[Len(Steps)].op = "into_ws" /\ Steps[Len(Steps)].ok
          /\ ~Out.ok => ~Steps[Len(Steps)].ok
    /\ \A h \in Handles : pc[h] \in {"none", "idle", "gone"} => call[h] = NoCall
C15_FreshPipelineServerUnchanged ==
    /\ []C15_OutcomeInv
    /\ [][\A h \in Handles : pc'[h] # pc[h] => <<pc[h], pc'[h]>> \in Forward]_vars
    /\ [][IsSome(last'.ret) =>
            /\ pc[last'.h] \in {"idle", "blocked", "tls", "into_ws"}
            /\ UNCHANGED <<listener, ssl_acceptor, nonblocking, lastSet, setBy, fds, async>>
            /\ \A g \in Handles : g # last'.h =>
                  pc'[g] = pc[g] /\ call'[g] = call[g] /\ cur'[g] = cur[g]]_vars
C15_Witness ==
    /\ Returned /\ Out.ok /\ pullFailed
    /\ ssl_acceptor[last.h] = "Tls" /\ Len(Steps) = 3
    /\ nonblocking /\ ncalls = MaxCalls

\* C16: every live handle refers to the one socket bind created, a handle that
\* was dropped or consumed to none; the socket has one open descriptor per live
\* handle and per async server made of one, so that, into_async apart, it is
\* open exactly while a handle is live; and while it is open an idle handle can
\* still accept, whatever was pulled or dropped before.
Owners ==
    Cardinality({h \in Handles : Live(h)}) + Cardinality({h \in Handles : Migrated(h)})
C16_OneSocketOpenWhileHeld ==
    /\ \A h \in Handles : listener[h] = IF Live(h) THEN BoundSocket ELSE 0
    /\ fds = Owners
    /\ Open <=> Owners > 0
    /\ (\A h \in Handles : ~Migrated(h)) => (Open <=> \E h \in Handles : Live(h))
    /\ \A h \in Handles :
          pc[h] = "idle" /\ ncalls < MaxCalls =>
              Open /\ ENABLED Accept(h, "accept")
C16_Witness ==
    /\ pc[1] = "gone" /\ ~Migrated(1) /\ Open /\ fds = 1
    /\ Returned /\ last.h = 2 /\ last.call.via = "next"
    /\ Len(Steps) = 1 /\ Steps[1].why = "WouldBlock"

\* Whether the Outcome carries a stream: in the Upgrade or in the stream
\* field of the InvalidConnection.
Carried(out) == out.ok \/ IsSome(out.val.stream)
Holders(c) == {h \in Handles : cur[h] = c}

\* C17 as claimed: a connection taken off the queue is held by one call, or
\* owned by the Outcome that carries it, or closed; and when the TLS
\* negotiation fails it has been closed when accept() returns.
C17_OwnedOrClosed ==
    /\ \A c \in Removed :
          \/ conn[c].st = "held" /\ Cardinality(Holders(c)) = 1
          \/ conn[c].st = "owned" /\ returned[c] = 1 /\ Holders(c) = {}
          \/ conn[c].st = "dropped" /\ returned[c] = 0 /\ Holders(c) = {}
    /\ FailedIn("tls") => conn[last.c].st = "dropped"
\* C17 as the code has it: such a connection has one owner at all times: the
\* one call working on it, the Outcome that carries it, or, after a TLS
\* negotiation interrupted by WouldBlock, the error inside the Outcome, which
\* keeps it open; otherwise it is closed.  It is never both carried and
\* closed, and after a failed TLS negotiation it is never carried.
C17_OneOwnerAlways ==
    /\ \A c \in Removed :
          \/ conn[c].st = "held" /\ Cardinality(Holders(c)) = 1
          \/ conn[c].st = "owned" /\ returned[c] = 1 /\ Holders(c) = {}
          \/ conn[c].st = "kept" /\ returned[c] = 0 /\ Holders(c) = {}
          \/ conn[c].st = "dropped" /\ returned[c] = 0 /\ Holders(c) = {}
    /\ Returned /\ last.c # 0 =>
          /\ Carried(Out) <=> conn[last.c].st = "owned"
          /\ conn[last.c].st \in {"owned", "kept", "dropped"}
          /\ conn[last.c].st = "kept" <=>
                FailedIn("tls") /\ Steps[Len(Steps)].why = "WouldBlock"
          /\ FailedIn("tls") => ~Carried(Out)
C17_Witness ==
    /\ FailedIn("tls") /\ Steps[Len(Steps)].why = "WouldBlock"
    /\ last.c # 0 /\ conn[last.c].st = "kept" /\ IsNone(IC.stream)

\* C18: in every InvalidConnection accept() returns, the stream is present
\* exactly when into_ws failed, and then it is the accepted stream; it is
\* absent exactly when listener.accept() or the TLS negotiation failed; and
\* parsed or buffer is present only together with the stream.
C18_StreamIffHandshakeFailure ==
    Failed =>
        /\ IsSome(IC.stream) <=> FailedIn("into_ws")
        /\ IsNone(IC.stream) <=> (FailedIn("accept") \/ FailedIn("tls"))
        /\ IsSome(IC.stream) => IC.stream = Some(last.c) /\ last.c \in ConnIds
        /\ IsSome(IC.parsed) \/ IsSome(IC.buffer) => IsSome(IC.stream)
C18_Witness ==
    /\ Failed /\ ssl_acceptor[last.h] = "Tls" /\ FailedIn("into_ws")
    /\ IsSome(IC.stream) /\ IsSome(IC.parsed) /\ IsSome(IC.buffer)

\* C19: the blocking mode belongs to the socket the handles share: whichever
\* handle the latest set_nonblocking was called on, an accept() on any handle
\* finding nothing queued returns WouldBlock at once when its argument was true
\* and waits when it was false.
C19_ModeSharedByHandles ==
    /\ (setBy = 0) <=> IsNone(lastSet)
    /\ nonblocking = (lastSet = Some(TRUE))
    /\ \A h \in Handles : pc[h] = "blocked" => ~call[h].nbset
    /\ Returned /\ Steps[1].empty =>
          /\ last.call.nbset /\ lastSet = Some(TRUE)
          /\ ~Out.ok /\ IC.error.kind = "WouldBlock"
    /\ \A h \in Handles :
          pc[h] = "idle" /\ ncalls < MaxCalls /\ backlog = <<>> =>
              IF lastSet = Some(TRUE)
              THEN ENABLED (Accept(h, "accept") /\ pc'[h] = "idle" /\ IsSome(last'.ret))
              ELSE ENABLED (Accept(h, "accept") /\ pc'[h] = "blocked")
C19_Witness ==
    /\ Returned /\ setBy \in Handles /\ setBy # last.h /\ Live(setBy)
    /\ last.call.nbset /\ Steps[1].empty
    /\ IC.error.kind = "WouldBlock"

TypeOK ==
    /\ pc \in [Handles -> {"none", "idle", "blocked", "tls", "into_ws", "gone"}]
    /\ ssl_acceptor \in [Handles -> {"absent", "NoTls", "Tls"}]
    /\ nonblocking \in BOOLEAN
    /\ nonblocking = (lastSet = Some(TRUE))
    /\ ncalls \in 0..MaxCalls
    /\ \A h \in Handles : cur[h] \in 0..MaxConns
    /\ \A h \in Handles : (cur[h] # 0) = (pc[h] \in {"tls", "into_ws"})
    /\ \A c \in ConnIds :
          conn[c].st \in {"free", "pending", "aborted", "held", "owned", "kept",
                          "dropped"}

====
